---- MODULE Spec2Model ----
(***************************************************************************)
(* A model of tools/doc_converter.py: the DocumentConverter class (the     *)
(* extension -> handler table, convert_file, convert_directory, the        *)
(* per-format handlers, _html_to_markdown, _add_frontmatter) and main().   *)
(*                                                                         *)
(* Text is a sequence of atoms.  An atom is a string: either one character *)
(* that the program's patterns look at ("<", ">", "/", "&", ";", "\n",     *)
(* " ", the letters of tag and entity names, the letters of a suffix) or a *)
(* run of ordinary characters ("Title", "Hello") that no pattern of the    *)
(* program distinguishes from a single ordinary character.                 *)
(***************************************************************************)
EXTENDS Integers, Sequences, FiniteSets, TLC

VARIABLES
    libs,       \* the packages the interpreter can import (lines 17-43)
    fs,         \* the input files: path -> [valid, data]
    out,        \* the output directory: file name -> content
    now,        \* the clock datetime.now() reads
    pc,         \* "idle", or "loop" inside convert_directory's for loop
    batch,      \* the convert_directory call in progress or just ended: who called, on what
    queue,      \* the paths the glob has still to yield
    results,    \* convert_directory's results list
    ret,        \* how the last convert_file / convert_directory call ended
    exit_code,  \* the exit status of the last command-line run, -1 before it ends
    html_in, html_out,                  \* _html_to_markdown on its own
    html_ref,   \* the markdown the elements of html_in stand for
    meta_in, body_in, props_in, fm_out, \* _add_frontmatter on its own
    stage       \* "ready", then which of the two functions has been applied

convVars == <<libs, fs, out, now, pc, batch, queue, results, ret, exit_code>>
pureVars == <<html_in, html_out, html_ref, meta_in, body_in, props_in, fm_out, stage>>
vars == <<convVars, pureVars>>

(***************************************************************************)
(* Bounds of the model.                                                    *)
(***************************************************************************)
\* readings the clock can advance through
MaxClock == 1
\* fragments an HTML input is put together from
MaxFrags == 2
\* keys of a metadata mapping handed to the frontmatter composer
MaxKeys == 2

(***************************************************************************)
(* Sequences of atoms.                                                     *)
(***************************************************************************)
Range(s) == {s[i] : i \in DOMAIN s}

StartsWith(s, i, lit) ==
    /\ i + Len(lit) - 1 <= Len(s)
    /\ \A k \in 1..Len(lit) : s[i + k - 1] = lit[k]

RECURSIVE Flatten(_)
Flatten(ss) == IF ss = <<>> THEN <<>> ELSE Head(ss) \o Flatten(Tail(ss))

\* sep.join(lines)
RECURSIVE Join(_, _)
Join(lines, sep) ==
    IF lines = <<>> THEN <<>>
    ELSE IF Len(lines) = 1 THEN Head(lines)
    ELSE Head(lines) \o sep \o Join(Tail(lines), sep)

NL == "\n"
Whitespace == {" ", NL, "\t"}

\* str.strip()
RECURSIVE LStrip(_)
LStrip(s) == IF s # <<>> /\ Head(s) \in Whitespace THEN LStrip(Tail(s)) ELSE s

RECURSIVE RStrip(_)
RStrip(s) ==
    IF s # <<>> /\ s[Len(s)] \in Whitespace THEN RStrip(SubSeq(s, 1, Len(s) - 1)) ELSE s

Strip(s) == RStrip(LStrip(s))

\* str.lower() on the letters a suffix is written in
UpperLetters == <<"A","B","C","D","E","F","G","H","I","J","K","L","M",
                  "N","O","P","Q","R","S","T","U","V","W","X","Y","Z">>
LowerLetters == <<"a","b","c","d","e","f","g","h","i","j","k","l","m",
                  "n","o","p","q","r","s","t","u","v","w","x","y","z">>

LowerMap == [c \in Range(UpperLetters) |->
                LowerLetters[CHOOSE i \in DOMAIN UpperLetters : UpperLetters[i] = c]]

LowerChar(c) == IF c \in DOMAIN LowerMap THEN LowerMap[c] ELSE c

Lower(s) == [i \in DOMAIN s |-> LowerChar(s[i])]

(***************************************************************************)
(* _html_to_markdown: re.sub is leftmost, non-overlapping, one pass.       *)
(***************************************************************************)
\* index of the first ">" at or after i, 0 when there is none
RECURSIVE FirstGt(_, _)
FirstGt(s, i) ==
    IF i > Len(s) THEN 0 ELSE IF s[i] = ">" THEN i ELSE FirstGt(s, i + 1)

\* (.*?)close from position i: the index where close starts, 0 when a newline
\* or the end of the text comes first ("." does not match a newline)
RECURSIVE FirstClose(_, _, _)
FirstClose(s, i, close) ==
    IF i > Len(s) THEN 0
    ELSE IF StartsWith(s, i, close) THEN i
    ELSE IF s[i] = NL THEN 0
    ELSE FirstClose(s, i + 1, close)

\* re.sub(r'<NAME[^>]*>(.*?)</NAME>', pre + r'\1' + post, s), scanning from i
RECURSIVE SubPair(_, _, _, _, _)
SubPair(s, i, name, pre, post) ==
    IF i > Len(s) THEN <<>>
    ELSE IF s[i] # "<" THEN <<s[i]>> \o SubPair(s, i + 1, name, pre, post)
    ELSE LET open  == <<"<">> \o name
             close == <<"<", "/">> \o name \o <<">">>
             gt    == IF StartsWith(s, i, open) THEN FirstGt(s, i + Len(open)) ELSE 0
             cl    == IF gt = 0 THEN 0 ELSE FirstClose(s, gt + 1, close)
         IN IF cl = 0
            THEN <<s[i]>> \o SubPair(s, i + 1, name, pre, post)
            ELSE pre \o SubSeq(s, gt + 1, cl - 1) \o post
                     \o SubPair(s, cl + Len(close), name, pre, post)

\* re.sub(lead + r'[^>]{least,}>', repl, s), scanning from i
RECURSIVE SubOpen(_, _, _, _, _)
SubOpen(s, i, lead, least, repl) ==
    IF i > Len(s) THEN <<>>
    ELSE IF s[i] # lead[1] THEN <<s[i]>> \o SubOpen(s, i + 1, lead, least, repl)
    ELSE LET gt == IF StartsWith(s, i, lead) THEN FirstGt(s, i + Len(lead)) ELSE 0
         IN IF gt = 0 \/ gt - (i + Len(lead)) < least
            THEN <<s[i]>> \o SubOpen(s, i + 1, lead, least, repl)
            ELSE repl \o SubOpen(s, gt + 1, lead, least, repl)

\* re.sub(literal, repl, s), scanning from i
RECURSIVE SubLit(_, _, _, _)
SubLit(s, i, lit, repl) ==
    IF i > Len(s) THEN <<>>
    ELSE IF StartsWith(s, i, lit)
         THEN repl \o SubLit(s, i + Len(lit), lit, repl)
         ELSE <<s[i]>> \o SubLit(s, i + 1, lit, repl)

Hashes(n) == [i \in 1..n |-> "#"]

\* h1..h6 are the heading levels the patterns name
HeadingLevels == 6

\* lines 450-455: <hN[^>]*>(.*?)</hN> -> N hashes, a space, the group; N = n..6
RECURSIVE Headings(_, _)
Headings(s, n) ==
    IF n > HeadingLevels THEN s
    ELSE Headings(SubPair(s, 1, <<"h", ToString(n)>>, Hashes(n) \o <<" ">>, <<>>), n + 1)

\* lines 457-460: strong, b, em, i, in this order
Inline(s) ==
    LET s1 == SubPair(s, 1, <<"s","t","r","o","n","g">>, <<"*","*">>, <<"*","*">>)
        s2 == SubPair(s1, 1, <<"b">>, <<"*","*">>, <<"*","*">>)
        s3 == SubPair(s2, 1, <<"e","m">>, <<"*">>, <<"*">>)
    IN SubPair(s3, 1, <<"i">>, <<"*">>, <<"*">>)

\* lines 462-464: <p[^>]*>, </p>, <br[^>]*> -> newline
Blocks(s) ==
    LET s1 == SubOpen(s, 1, <<"<","p">>, 0, <<NL>>)
        s2 == SubLit(s1, 1, <<"<","/","p",">">>, <<NL>>)
    IN SubOpen(s2, 1, <<"<","b","r">>, 0, <<NL>>)

\* line 467: re.sub(r'<[^>]+>', '', s)
StripTags(s) == SubOpen(s, 1, <<"<">>, 1, <<>>)

\* the character references the model decodes (html.unescape knows many more)
Entities == << [name |-> <<"l","t">>,     ch |-> "<"],
               [name |-> <<"g","t">>,     ch |-> ">"],
               [name |-> <<"a","m","p">>, ch |-> "&"],
               [name |-> <<"#","6","0">>, ch |-> "<"],
               [name |-> <<"#","6","2">>, ch |-> ">"] >>

\* line 470: html.unescape, one pass; the closing ";" is optional
RECURSIVE Unescape(_, _)
Unescape(s, i) ==
    IF i > Len(s) THEN <<>>
    ELSE IF s[i] = "&" /\ \E e \in DOMAIN Entities : StartsWith(s, i + 1, Entities[e].name)
         THEN LET e   == CHOOSE x \in DOMAIN Entities : StartsWith(s, i + 1, Entities[x].name)
                  nxt == i + 1 + Len(Entities[e].name)
                  aft == IF nxt <= Len(s) /\ s[nxt] = ";" THEN nxt + 1 ELSE nxt
              IN <<Entities[e].ch>> \o Unescape(s, aft)
         ELSE <<s[i]>> \o Unescape(s, i + 1)

\* the last index of the whitespace run that starts at i (i - 1 when it is empty)
RECURSIVE RunEnd(_, _)
RunEnd(s, i) ==
    IF i <= Len(s) /\ s[i] \in Whitespace THEN RunEnd(s, i + 1) ELSE i - 1

\* line 473: re.sub(r'\n\s*\n', '\n\n', s); \s* is greedy and backs off to the
\* last newline of the run
RECURSIVE CollapseBlank(_, _)
CollapseBlank(s, i) ==
    IF i > Len(s) THEN <<>>
    ELSE LET e   == RunEnd(s, i + 1)
             nls == {k \in (i + 1)..e : s[k] = NL}
         IN IF s[i] = NL /\ nls # {}
            THEN <<NL, NL>> \o CollapseBlank(s, (CHOOSE k \in nls : \A j \in nls : j <= k) + 1)
            ELSE <<s[i]>> \o CollapseBlank(s, i + 1)

\* the text after line 467, before the entities are decoded
HtmlStripped(s) == StripTags(Blocks(Inline(Headings(s, 1))))

_html_to_markdown(s) == Strip(CollapseBlank(Unescape(HtmlStripped(s), 1), 1))

\* a tag: "<", one or more characters other than ">", then ">"
HasTag(s) ==
    \E i \in DOMAIN s : s[i] = "<" /\ FirstGt(s, i + 1) > i + 1

(***************************************************************************)
(* Metadata values.  A mapping is a sequence of <<key, value>> pairs with  *)
(* distinct keys, in insertion order.  A value is one of                   *)
(*   [t |-> "str", s |-> text]   [t |-> "int", n |-> number]               *)
(*   [t |-> "bool", b |-> BOOLEAN]   [t |-> "none"]                        *)
(*   [t |-> "list", l |-> sequence of values]                              *)
(*   [t |-> "dict", d |-> mapping]                                         *)
(***************************************************************************)
Str(s) == [t |-> "str", s |-> s]
Num(n) == [t |-> "int", n |-> n]
Bool(b) == [t |-> "bool", b |-> b]
None == [t |-> "none"]
List(l) == [t |-> "list", l |-> l]
Dict(d) == [t |-> "dict", d |-> d]

\* json.dumps of a str: quotes around it, the quote, the backslash and the
\* control characters escaped
JsonChar(c) ==
    IF c = "\"" THEN <<"\\", "\"">>
    ELSE IF c = "\\" THEN <<"\\", "\\">>
    ELSE IF c = NL THEN <<"\\", "n">>
    ELSE IF c = "\t" THEN <<"\\", "t">>
    ELSE <<c>>

JsonString(s) == <<"\"">> \o Flatten([i \in DOMAIN s |-> JsonChar(s[i])]) \o <<"\"">>

RECURSIVE JsonDumps(_)
JsonDumps(v) ==
    IF v.t = "str" THEN JsonString(v.s)
    ELSE IF v.t = "int" THEN <<ToString(v.n)>>
    ELSE IF v.t = "bool" THEN IF v.b THEN <<"true">> ELSE <<"false">>
    ELSE IF v.t = "none" THEN <<"null">>
    ELSE IF v.t = "list"
         THEN <<"[">> \o Join([i \in DOMAIN v.l |-> JsonDumps(v.l[i])], <<",", " ">>) \o <<"]">>
    ELSE <<"{">> \o Join([i \in DOMAIN v.d |->
                            JsonString(v.d[i][1]) \o <<":", " ">> \o JsonDumps(v.d[i][2])],
                         <<",", " ">>) \o <<"}">>

\* str(value) inside an f-string, for the values that are neither list nor str
PyStr(v) ==
    IF v.t = "int" THEN <<ToString(v.n)>>
    ELSE IF v.t = "bool" THEN IF v.b THEN <<"True">> ELSE <<"False">>
    ELSE IF v.t = "none" THEN <<"None">>
    ELSE <<"<", "o", "b", "j", "e", "c", "t", ">">>

\* datetime.isoformat() of the clock reading n
ISO(n) == "2024-01-01T00:00:0" \o ToString(n)

\* lines 506-512: one line per key
FrontmatterLine(kv) ==
    kv[1] \o <<":", " ">> \o
        (IF kv[2].t \in {"list", "str"} THEN JsonDumps(kv[2]) ELSE PyStr(kv[2]))

\* lines 514-520
FixedLines(clock) ==
    << <<"converted_date", ":", " ", ISO(clock)>>,
       <<"status", ":", " ", "converted">>,
       <<"needs_review", ":", " ", "true">>,
       <<"---">>,
       <<>> >>

_add_frontmatter(content, metadata, clock) ==
    Join(<< <<"---">> >> \o [i \in DOMAIN metadata |-> FrontmatterLine(metadata[i])]
             \o FixedLines(clock), <<NL>>) \o content

\* {k: v for k, v in metadata.items() if v is not None}
RECURSIVE DropNone(_)
DropNone(m) ==
    IF m = <<>> THEN <<>>
    ELSE IF Head(m)[2] = None THEN DropNone(Tail(m))
    ELSE <<Head(m)>> \o DropNone(Tail(m))

\* lines 486-497; props holds the core properties, None where one is unset;
\* "title or stem": an unset or empty title gives the stem
DocxProperties(props, stem) ==
    << << <<"file_type">>, Str(<<"document">>) >>,
       << <<"title">>, IF props.title = None \/ props.title = Str(<<>>) THEN Str(stem) ELSE props.title >>,
       << <<"author">>, props.author >>,
       << <<"subject">>, props.subject >>,
       << <<"created">>, props.created >>,
       << <<"modified">>, props.modified >>,
       << <<"last_modified_by">>, props.last_modified_by >> >>

\* lines 477-500: readable says whether docx.Document(file_path) succeeds
_extract_docx_metadata(hasDocx, readable, props, stem) ==
    IF ~hasDocx THEN << << <<"file_type">>, Str(<<"document">>) >> >>
    ELSE IF ~readable
         THEN << << <<"file_type">>, Str(<<"document">>) >>, << <<"title">>, Str(stem) >> >>
    ELSE DropNone(DocxProperties(props, stem))

(***************************************************************************)
(* Paths.  A path is [dir |-> the names of the directories above it,       *)
(* name |-> its last component]; a name is text, its suffix written one    *)
(* character per atom.                                                     *)
(***************************************************************************)
\* the index of the last "." of a name, 0 when it has none
RECURSIVE LastDot(_, _)
LastDot(name, i) ==
    IF i = 0 THEN 0 ELSE IF name[i] = "." THEN i ELSE LastDot(name, i - 1)

\* pathlib: the suffix starts at the last dot, unless that dot is the first or
\* the last character of the name
suffix(p) ==
    LET i == LastDot(p.name, Len(p.name))
    IN IF 1 < i /\ i < Len(p.name) THEN SubSeq(p.name, i, Len(p.name)) ELSE <<>>

stem(p) ==
    LET i == LastDot(p.name, Len(p.name))
    IN IF 1 < i /\ i < Len(p.name) THEN SubSeq(p.name, 1, i - 1) ELSE p.name

\* directory / name
Child(d, name) == [dir |-> Append(d.dir, d.name), name |-> name]

Under(d, p, recursive) ==
    LET base == Append(d.dir, d.name)
    IN IF recursive
       THEN Len(p.dir) >= Len(base) /\ SubSeq(p.dir, 1, Len(base)) = base
       ELSE p.dir = base

(***************************************************************************)
(* The module's optional imports, lines 17-43.  installed is the set of    *)
(* packages the interpreter can import.                                    *)
(***************************************************************************)
Packages == {"docx", "pandas", "openpyxl", "PyPDF2", "pdfplumber", "mammoth"}

docx_(installed) == "docx" \in installed
pd_(installed) == "pandas" \in installed
\* one try block imports both: either failing leaves both None
PyPDF2_(installed) == {"PyPDF2", "pdfplumber"} \subseteq installed
pdfplumber_(installed) == {"PyPDF2", "pdfplumber"} \subseteq installed
mammoth_(installed) == "mammoth" \in installed

(***************************************************************************)
(* The handlers.  A handler gives [exc, msg, content, result]: exc is the  *)
(* class of the exception it raises, "none" when it returns; content is    *)
(* what it wrote to output_file (meaningful when exc = "none").            *)
(***************************************************************************)
Returns(content, result) ==
    [exc |-> "none", msg |-> <<>>, content |-> content, result |-> result]

Raises(exc, msg) ==
    [exc |-> exc, msg |-> msg, content |-> <<>>, result |-> [status |-> "raised"]]

\* what a reader reports on a file it cannot read or parse
Unreadable == <<"cannot read the file">>

\* mammoth.convert_to_html: the document's text as one paragraph
MammothHtml(data) == <<"<", "p", ">">> \o data \o <<"<", "/", "p", ">">>

\* docx.Document(...).paragraphs: the document's text as one Normal paragraph
Paragraphs(data) == << [style |-> "Normal", text |-> data] >>

HeadingStyles == <<"Heading 1", "Heading 2", "Heading 3",
                   "Heading 4", "Heading 5", "Heading 6">>

\* lines 402-424 (documents of the model hold no tables)
DocxLine(para) ==
    LET text == Strip(para.text)
    IN IF text = <<>> THEN <<>>
       ELSE IF \E n \in DOMAIN HeadingStyles : HeadingStyles[n] = para.style
            THEN Hashes(CHOOSE n \in DOMAIN HeadingStyles : HeadingStyles[n] = para.style)
                     \o <<" ">> \o text
            ELSE text

_docx_to_markdown(paras) == Join([i \in DOMAIN paras |-> DocxLine(paras[i])], <<NL>>)

\* the core properties of the model's documents
SampleProps ==
    [title |-> None, author |-> Str(<<"Ann">>), subject |-> None,
     created |-> Str(<<"2020-05-01T10:00:00">>), modified |-> None,
     last_modified_by |-> None]

_convert_docx(p, f, installed, clock) ==
    IF ~docx_(installed)
    THEN Raises("ImportError", <<"python-docx not installed. Run: pip install python-docx">>)
    ELSE IF ~f.valid
         THEN Raises("Exception", <<"Failed to convert DOCX: ">> \o Unreadable)
    ELSE LET markdown_content ==
                 IF mammoth_(installed) THEN _html_to_markdown(MammothHtml(f.data))
                 ELSE _docx_to_markdown(Paragraphs(f.data))
             metadata == _extract_docx_metadata(TRUE, f.valid, SampleProps, stem(p))
         IN Returns(_add_frontmatter(markdown_content, metadata, clock),
                    [status |-> "success", content_type |-> "document", metadata |-> metadata])

\* DataFrame.to_markdown(index=False): the table's text between bars
ToMarkdown(data) == <<"|", " ">> \o data \o <<" ", "|">>

\* lines 167-218: the workbook of the model has one sheet, empty when the file
\* holds no data
_convert_excel(p, f, installed, clock) ==
    IF ~pd_(installed)
    THEN Raises("ImportError", <<"pandas not installed. Run: pip install pandas openpyxl">>)
    ELSE IF ~f.valid
         THEN Raises("Exception", <<"Failed to convert Excel: ">> \o Unreadable)
    ELSE LET sheet_info ==
                 IF f.data = <<>> THEN <<>>
                 ELSE << Dict(<< <<<<"name">>, Str(<<"Sheet1">>)>>,
                                 <<<<"rows">>, Num(1)>>,
                                 <<<<"columns">>, Num(1)>>,
                                 <<<<"columns_list">>, List(<<Str(<<"col">>)>>)>> >>) >>
             markdown_content ==
                 <<"#", " ">> \o stem(p) \o <<NL, NL>> \o
                 (IF f.data = <<>> THEN <<>>
                  ELSE <<"#", "#", " ", "Sheet1", NL, NL>> \o ToMarkdown(f.data) \o <<NL, NL>>)
             metadata == << <<<<"file_type">>, Str(<<"spreadsheet">>)>>,
                            <<<<"sheets">>, List(sheet_info)>>,
                            <<<<"total_sheets">>, Num(Len(sheet_info))>> >>
         IN Returns(_add_frontmatter(markdown_content, metadata, clock),
                    [status |-> "success", content_type |-> "spreadsheet", metadata |-> metadata])

\* lines 220-270: the document of the model has one page, whose text is the
\* file's data; the ImportError is raised inside the try block
_convert_pdf(p, f, installed, clock) ==
    IF ~pdfplumber_(installed) /\ ~PyPDF2_(installed)
    THEN Raises("Exception", <<"Failed to convert PDF: ",
                               "No PDF library available. Install: pip install pdfplumber">>)
    ELSE IF ~f.valid
         THEN Raises("Exception", <<"Failed to convert PDF: ">> \o Unreadable)
    ELSE LET extracted == IF f.data = <<>> THEN <<>>
                          ELSE <<"#", "#", " ", "Page", " ", "1", NL, NL>> \o f.data \o <<NL, NL>>
             markdown_content ==
                 IF Strip(extracted) = <<>>
                 THEN <<"#", " ">> \o stem(p)
                          \o <<NL, NL, "*PDF content could not be extracted as text*", NL>>
                 ELSE extracted
             metadata == << <<<<"file_type">>, Str(<<"pdf">>)>>,
                            <<<<"pages">>, Num(1)>>,
                            <<<<"extracted_text">>, Bool(Strip(markdown_content) # <<>>)>> >>
         IN Returns(_add_frontmatter(markdown_content, metadata, clock),
                    [status |-> "success", content_type |-> "pdf", metadata |-> metadata])

\* lines 272-299
_convert_text(p, f, installed, clock) ==
    IF ~f.valid THEN Raises("Exception", <<"Failed to convert text: ">> \o Unreadable)
    ELSE LET markdown_content == <<"#", " ">> \o stem(p) \o <<NL, NL>> \o f.data
             metadata == << <<<<"file_type">>, Str(<<"text">>)>>,
                            <<<<"encoding">>, Str(<<"utf-8">>)>> >>
         IN Returns(_add_frontmatter(markdown_content, metadata, clock),
                    [status |-> "success", content_type |-> "text", metadata |-> metadata])

\* lines 301-333
_convert_csv(p, f, installed, clock) ==
    IF ~pd_(installed)
    THEN Raises("ImportError", <<"pandas not installed. Run: pip install pandas">>)
    ELSE IF ~f.valid
         THEN Raises("Exception", <<"Failed to convert CSV: ">> \o Unreadable)
    ELSE LET markdown_content == <<"#", " ">> \o stem(p) \o <<NL, NL>> \o ToMarkdown(f.data)
             metadata == << <<<<"file_type">>, Str(<<"csv">>)>>,
                            <<<<"rows">>, Num(1)>>,
                            <<<<"columns">>, Num(1)>>,
                            <<<<"columns_list">>, List(<<Str(<<"col">>)>>)>> >>
         IN Returns(_add_frontmatter(markdown_content, metadata, clock),
                    [status |-> "success", content_type |-> "csv", metadata |-> metadata])

\* lines 335-351
_copy_markdown(p, f, installed, clock) ==
    IF ~f.valid THEN Raises("Exception", <<"Failed to copy markdown: ">> \o Unreadable)
    ELSE Returns(f.data, [status |-> "success", content_type |-> "markdown"])

\* lines 353-371
_convert_html(p, f, installed, clock) ==
    IF ~f.valid THEN Raises("Exception", <<"Failed to convert HTML: ">> \o Unreadable)
    ELSE Returns(_html_to_markdown(f.data), [status |-> "success", content_type |-> "html"])

\* the atoms that are runs of lower-case letters, and the digits
LowerRuns == Range(LowerLetters) \cup {"rtf", "par", "world"}
Digits == {"0", "1", "2", "3", "4", "5", "6", "7", "8", "9"}

\* index of the first "}" at or after i, 0 when there is none
RECURSIVE FirstBrace(_, _)
FirstBrace(s, i) ==
    IF i > Len(s) THEN 0 ELSE IF s[i] = "}" THEN i ELSE FirstBrace(s, i + 1)

\* line 380: re.sub(r'\{[^}]*\}', '', s)
RECURSIVE SubGroups(_, _)
SubGroups(s, i) ==
    IF i > Len(s) THEN <<>>
    ELSE LET e == IF s[i] = "{" THEN FirstBrace(s, i + 1) ELSE 0
         IN IF e = 0 THEN <<s[i]>> \o SubGroups(s, i + 1) ELSE SubGroups(s, e + 1)

\* the first index at or after i whose atom is not in set
RECURSIVE SkipWhile(_, _, _)
SkipWhile(s, i, set) ==
    IF i <= Len(s) /\ s[i] \in set THEN SkipWhile(s, i + 1, set) ELSE i

\* line 381: re.sub(r'\\[a-z]+\d*', '', s)
RECURSIVE SubControls(_, _)
SubControls(s, i) ==
    IF i > Len(s) THEN <<>>
    ELSE LET w == IF s[i] = "\\" THEN SkipWhile(s, i + 1, LowerRuns) ELSE i + 1
         IN IF s[i] = "\\" /\ w > i + 1
            THEN SubControls(s, SkipWhile(s, w, Digits))
            ELSE <<s[i]>> \o SubControls(s, i + 1)

\* line 382 without the strip: re.sub(r'\s+', ' ', s)
RECURSIVE SubSpaces(_, _)
SubSpaces(s, i) ==
    IF i > Len(s) THEN <<>>
    ELSE IF s[i] \in Whitespace
         THEN <<" ">> \o SubSpaces(s, SkipWhile(s, i, Whitespace))
         ELSE <<s[i]>> \o SubSpaces(s, i + 1)

\* lines 373-396
_convert_rtf(p, f, installed, clock) ==
    IF ~f.valid THEN Raises("Exception", <<"Failed to convert RTF: ">> \o Unreadable)
    ELSE LET text_content == Strip(SubSpaces(SubControls(SubGroups(f.data, 1), 1), 1))
         IN Returns(<<"#", " ">> \o stem(p) \o <<NL, NL>> \o text_content,
                    [status |-> "success", content_type |-> "rtf"])

(***************************************************************************)
(* The dispatcher.                                                         *)
(***************************************************************************)
\* lines 61-72
supported_formats ==
    (<<".", "d", "o", "c", "x">> :> "_convert_docx") @@
    (<<".", "d", "o", "c">>      :> "_convert_docx") @@
    (<<".", "x", "l", "s", "x">> :> "_convert_excel") @@
    (<<".", "x", "l", "s">>      :> "_convert_excel") @@
    (<<".", "p", "d", "f">>      :> "_convert_pdf") @@
    (<<".", "t", "x", "t">>      :> "_convert_text") @@
    (<<".", "m", "d">>           :> "_copy_markdown") @@
    (<<".", "h", "t", "m", "l">> :> "_convert_html") @@
    (<<".", "r", "t", "f">>      :> "_convert_rtf") @@
    (<<".", "c", "s", "v">>      :> "_convert_csv")

\* converter(file_path, output_file), line 96
Invoke(handler, p, f, installed, clock) ==
    CASE handler = "_convert_docx"  -> _convert_docx(p, f, installed, clock)
      [] handler = "_convert_excel" -> _convert_excel(p, f, installed, clock)
      [] handler = "_convert_pdf"   -> _convert_pdf(p, f, installed, clock)
      [] handler = "_convert_text"  -> _convert_text(p, f, installed, clock)
      [] handler = "_copy_markdown" -> _copy_markdown(p, f, installed, clock)
      [] handler = "_convert_html"  -> _convert_html(p, f, installed, clock)
      [] handler = "_convert_rtf"   -> _convert_rtf(p, f, installed, clock)
      [] handler = "_convert_csv"   -> _convert_csv(p, f, installed, clock)

\* the directories of the model: in/ always exists, in/sub/ when it holds a file
InDir == [dir |-> <<>>, name |-> <<"in">>]
SubDir == Child(InDir, <<"sub">>)
Dirs(files) == {InDir} \cup {d \in {SubDir} : \E p \in DOMAIN files : Under(d, p, FALSE)}

is_dir(files, p) == p \in Dirs(files)
is_file(files, p) == p \in DOMAIN files
exists(files, p) == is_file(files, p) \/ is_dir(files, p)

\* a file's bytes as open() finds them; a directory cannot be opened
Open(files, p) == IF is_file(files, p) THEN files[p] ELSE [valid |-> FALSE, data |-> <<>>]

\* "if output_name:" -- None and the empty string are both false
Truthy(v) == v # None /\ v # Str(<<>>)

DotMd == <<".", "m", "d">>

\* a variant that names the output from the stem whatever name is given
OutputFileFromStem(p, output_name) == stem(p) \o DotMd

\* lines 87-90: the output file's name inside output_dir
OutputFile(p, output_name) ==
    IF Truthy(output_name) THEN output_name.s \o DotMd ELSE stem(p) \o DotMd

\* a variant that opens the file for appending
WriteAppending(dir, name, content) ==
    [n \in DOMAIN dir \cup {name} |->
        IF n # name THEN dir[n]
        ELSE IF name \in DOMAIN dir THEN dir[name] \o content ELSE content]

\* open(output_file, 'w').write(content): the file is created or replaced
Write(dir, name, content) ==
    [n \in DOMAIN dir \cup {name} |-> IF n = name THEN content ELSE dir[n]]

\* a variant that tests the path only once its suffix is known to be registered
MissingAfterFormat(files, p) ==
    ~exists(files, p) /\ Lower(suffix(p)) \in DOMAIN supported_formats

\* line 78: not file_path.exists()
Missing(files, p) == ~exists(files, p)

\* a variant that takes the suffix as written
extension_as_written(p) == suffix(p)

\* line 81: file_path.suffix.lower()
extension(p) == Lower(suffix(p))

\* lines 74-106; gives [exc, msg, result, out, invoked, replaced]: the
\* exception raised or "none", the dict returned, the output directory
\* afterwards, the handlers it invoked, and whether the handler's
\* open(output_file, 'w') found a file of that name already there
convert_file(p, output_name, files, dir, installed, clock) ==
    IF Missing(files, p)
    THEN [exc |-> "FileNotFoundError", msg |-> <<"File not found: ">> \o p.name,
          result |-> [status |-> "raised"], out |-> dir, invoked |-> <<>>,
          replaced |-> FALSE]
    ELSE LET ext == extension(p) IN
         IF ext \notin DOMAIN supported_formats
         THEN [exc |-> "ValueError", msg |-> <<"Unsupported file format: ">> \o ext,
               result |-> [status |-> "raised"], out |-> dir, invoked |-> <<>>,
               replaced |-> FALSE]
         ELSE LET output_file == OutputFile(p, output_name)
                  converter == supported_formats[ext]
                  h == Invoke(converter, p, Open(files, p), installed, clock)
              IN IF h.exc # "none"
                 THEN [exc |-> h.exc, msg |-> h.msg, result |-> [status |-> "raised"],
                       out |-> dir, invoked |-> <<converter>>, replaced |-> FALSE]
                 ELSE [exc |-> "none", msg |-> <<>>,
                       result |-> [input_file |-> p,
                                   output_file |-> output_file,
                                   conversion_time |-> ISO(clock),
                                   file_size |-> Len(files[p].data)] @@ h.result,
                       out |-> Write(dir, output_file, h.content),
                       invoked |-> <<converter>>,
                       replaced |-> output_file \in DOMAIN dir]

\* a variant of the except clause that catches ValueError alone
ValueErrorOnly == {"ValueError"}

\* "except Exception" (lines 123, 568): the classes it catches
ExceptionClasses == {"Exception", "ImportError", "ValueError", "FileNotFoundError"}

\* lines 125-129
FailedResult(p, r) == [input_file |-> p, error |-> r.msg, status |-> "failed"]

\* lines 118-119: what the loop keeps of the glob
Enumerated(files, d, recursive) ==
    {p \in DOMAIN files : Under(d, p, recursive) /\ Lower(suffix(p)) \in DOMAIN supported_formats}

\* the orders a glob may yield a set of paths in
Orders(S) ==
    {q \in [1..Cardinality(S) -> S] : \A i, j \in DOMAIN q : i # j => q[i] # q[j]}

(***************************************************************************)
(* The inputs of the model.                                                *)
(***************************************************************************)
Sfx(chars) == <<".">> \o chars

\* every registered suffix, two of them in other cases, and one unregistered
Suffixes ==
    DOMAIN supported_formats \cup
    {Sfx(<<"P", "D", "F">>), Sfx(<<"C", "s", "v">>), Sfx(<<"x", "y", "z">>)}

HtmlSample ==
    <<"<","h","1",">", "Title", "<","/","h","1",">",
      "<","p",">", "Hello", " ", "<","b",">", "world", "<","/","b",">", "<","/","p",">">>

RtfSample ==
    <<"{", "\\", "rtf", "1", "}", " ", "Hello", "\\", "par", " ", "world">>

SampleData(p) ==
    IF Lower(suffix(p)) = Sfx(<<"h", "t", "m", "l">>) THEN HtmlSample
    ELSE IF Lower(suffix(p)) = Sfx(<<"r", "t", "f">>) THEN RtfSample
    ELSE IF p.dir = <<InDir.name>> THEN <<"Hello", " ", "world">>
    ELSE <<"Other", " ", "text">>

FileOf(p, valid) == [valid |-> valid, data |-> SampleData(p)]

\* in/a.<suffix> alone, readable or not
Primaries == {Child(InDir, <<"a">> \o x) : x \in Suffixes}
Singles == {[p \in {q} |-> FileOf(q, v)] : q \in Primaries, v \in BOOLEAN}

TwoFiles(a, va, b, vb) == [p \in {a, b} |-> IF p = a THEN FileOf(a, va) ELSE FileOf(b, vb)]

\* two files in one batch: the same stem with two suffixes, the same stem in
\* a subdirectory, and a readable CSV beside an unreadable PDF
Pairs ==
    { TwoFiles(Child(InDir, <<"a">> \o Sfx(<<"t", "x", "t">>)), TRUE,
               Child(InDir, <<"a">> \o Sfx(<<"c", "s", "v">>)), TRUE),
      TwoFiles(Child(InDir, <<"a">> \o Sfx(<<"m", "d">>)), TRUE,
               Child(SubDir, <<"a">> \o Sfx(<<"t", "x", "t">>)), TRUE),
      TwoFiles(Child(InDir, <<"a">> \o Sfx(<<"c", "s", "v">>)), TRUE,
               Child(InDir, <<"b">> \o Sfx(<<"P", "D", "F">>)), FALSE) }

\* every package installed, none, or all but mammoth
Installations == {Packages, {}, Packages \ {"mammoth"}}

\* the interpreter and the input files a behaviour starts from
Scenarios ==
    {[files |-> f, installed |-> i] : f \in Singles, i \in Installations}
    \cup {[files |-> f, installed |-> i] : f \in Pairs, i \in {Packages, {}}}

\* paths no file system of the model holds
MissingPaths ==
    { Child(InDir, <<"m">> \o Sfx(<<"t", "x", "t">>)),
      Child(InDir, <<"m">> \o Sfx(<<"x", "y", "z">>)) }

\* the output_name / --name arguments
OutputNames == {None, Str(<<>>), Str(<<"n">>)}

NoCall ==
    [op |-> "none", path |-> InDir, name |-> None, exc |-> "none", msg |-> <<>>,
     result |-> [status |-> "none"], invoked |-> <<>>, replaced |-> FALSE]

NoBatch == [by |-> "none", dir |-> InDir, recursive |-> FALSE]

ConvInit ==
    /\ \E sc \in Scenarios : libs = sc.installed /\ fs = sc.files
    /\ out = <<>>
    /\ now = 0
    /\ pc = "idle"
    /\ batch = NoBatch
    /\ queue = <<>>
    /\ results = <<>>
    /\ ret = NoCall
    /\ exit_code = -1

PureIdle ==
    /\ html_in = <<>> /\ html_out = <<>> /\ html_ref = <<>>
    /\ meta_in = <<>> /\ body_in = <<>> /\ props_in = SampleProps /\ fm_out = <<>>
    /\ stage = "ready"

Init == ConvInit /\ PureIdle

(***************************************************************************)
(* The operations.  ret, results and exit_code describe the operation in   *)
(* progress or, when pc = "idle", the last one finished; each operation    *)
(* starts by clearing them.                                                *)
(***************************************************************************)
Returned(op, p, name, r) ==
    [op |-> op, path |-> p, name |-> name, exc |-> r.exc, msg |-> r.msg,
     result |-> r.result, invoked |-> r.invoked, replaced |-> r.replaced]

DirReturned(d) ==
    [NoCall EXCEPT !.op = "convert_directory", !.path = d,
                   !.result = [status |-> "returned"]]

\* datetime.now() moves on
Tick ==
    /\ now < MaxClock
    /\ now' = now + 1
    /\ UNCHANGED <<libs, fs, out, pc, batch, queue, results, ret, exit_code, pureVars>>

\* a caller's converter.convert_file(p, name)
ConvertFile(p, name) ==
    /\ pc = "idle"
    /\ LET r == convert_file(p, name, fs, out, libs, now)
       IN /\ out' = r.out
          /\ ret' = Returned("convert_file", p, name, r)
    /\ results' = <<>> /\ exit_code' = -1 /\ batch' = NoBatch
    /\ UNCHANGED <<libs, fs, now, pc, queue, pureVars>>

\* lines 110-118: the call, up to the first turn of the loop
EnterLoop(by, d, recursive) ==
    /\ pc' = "loop"
    /\ batch' = [by |-> by, dir |-> d, recursive |-> recursive]
    /\ queue' \in Orders(Enumerated(fs, d, recursive))
    /\ results' = <<>> /\ ret' = NoCall /\ exit_code' = -1

\* a caller's converter.convert_directory(d, recursive)
ConvertDirectory(d, recursive) ==
    /\ pc = "idle"
    /\ EnterLoop("api", d, recursive)
    /\ UNCHANGED <<libs, fs, out, now, pureVars>>

\* a variant whose except clause removes what the batch has written
LoopStepRollingBack ==
    /\ pc = "loop" /\ queue # <<>>
    /\ LET p == Head(queue)
           r == convert_file(p, None, fs, out, libs, now)
       IN /\ out' = IF r.exc = "none" THEN r.out ELSE <<>>
          /\ results' = Append(results,
                               IF r.exc = "none" THEN r.result ELSE FailedResult(p, r))
          /\ queue' = Tail(queue)
    /\ UNCHANGED <<libs, fs, now, pc, batch, ret, exit_code, pureVars>>

\* lines 118-129: one turn of the loop.  A conversion that returns, or raises
\* an exception the except clause catches, adds a result; any other exception
\* ends convert_directory, and main's own except clause (line 568) or the
\* interpreter then exits 1
LoopStep ==
    /\ pc = "loop" /\ queue # <<>>
    /\ LET p == Head(queue)
           r == convert_file(p, None, fs, out, libs, now)
       IN /\ out' = r.out
          /\ IF r.exc \in ExceptionClasses \cup {"none"}
             THEN /\ results' = Append(results,
                                       IF r.exc = "none" THEN r.result ELSE FailedResult(p, r))
                  /\ queue' = Tail(queue)
                  /\ UNCHANGED <<pc, batch, ret, exit_code>>
             ELSE /\ ret' = Returned("convert_directory", batch.dir, None, r)
                  /\ exit_code' = IF batch.by = "cli" THEN 1 ELSE exit_code
                  /\ pc' = "idle" /\ queue' = <<>>
                  /\ UNCHANGED <<results, batch>>
    /\ UNCHANGED <<libs, fs, now, pureVars>>

\* line 131, for a caller's call
LoopReturn ==
    /\ pc = "loop" /\ queue = <<>> /\ batch.by = "api"
    /\ ret' = DirReturned(batch.dir)
    /\ pc' = "idle"
    /\ UNCHANGED <<libs, fs, out, now, batch, queue, results, exit_code, pureVars>>

\* a variant that exits 1 when a file of the batch failed
MainSummaryCountingFailures ==
    /\ pc = "loop" /\ queue = <<>> /\ batch.by = "cli"
    /\ exit_code' = IF \E i \in DOMAIN results : results[i].status = "failed" THEN 1 ELSE 0
    /\ ret' = DirReturned(batch.dir)
    /\ pc' = "idle"
    /\ UNCHANGED <<libs, fs, out, now, batch, queue, results, pureVars>>

\* lines 553-562 and the fall off the end of main: exit status 0
MainSummary ==
    /\ pc = "loop" /\ queue = <<>> /\ batch.by = "cli"
    /\ exit_code' = 0
    /\ ret' = DirReturned(batch.dir)
    /\ pc' = "idle"
    /\ UNCHANGED <<libs, fs, out, now, batch, queue, results, pureVars>>

\* lines 539-570: main on a file
MainFile(input, name) ==
    /\ pc = "idle"
    /\ is_file(fs, input)
    /\ LET r == convert_file(input, name, fs, out, libs, now)
       IN /\ out' = r.out
          /\ ret' = Returned("convert_file", input, name, r)
          \* line 568 catches the exception and exits 1; one it did not catch
          \* would end the interpreter with status 1 as well
          /\ exit_code' = IF r.exc = "none" THEN 0 ELSE 1
    /\ results' = <<>> /\ batch' = NoBatch
    /\ UNCHANGED <<libs, fs, now, pc, queue, pureVars>>

\* main on a directory, up to the first turn of convert_directory's loop
MainDir(input, recursive) ==
    /\ pc = "idle"
    /\ ~is_file(fs, input) /\ is_dir(fs, input)
    /\ EnterLoop("cli", input, recursive)
    /\ UNCHANGED <<libs, fs, out, now, pureVars>>

\* lines 564-566
MainMissing(input) ==
    /\ pc = "idle"
    /\ ~is_file(fs, input) /\ ~is_dir(fs, input)
    /\ exit_code' = 1
    /\ ret' = [NoCall EXCEPT !.op = "main", !.path = input]
    /\ results' = <<>> /\ batch' = NoBatch
    /\ UNCHANGED <<libs, fs, out, now, pc, queue, pureVars>>

\* the calls a caller makes: a name is given only with a file that exists
\* (the name is not read before line 87)
FileCalls ==
    {<<p, name>> : p \in DOMAIN fs, name \in OutputNames}
    \cup {<<p, None>> : p \in MissingPaths \cup Dirs(fs)}

\* the command lines: input, --name, --recursive
CommandLines ==
    {<<p, name, FALSE>> : p \in DOMAIN fs, name \in OutputNames}
    \cup {<<p, None, recursive>> : p \in Dirs(fs), recursive \in BOOLEAN}
    \cup {<<p, None, FALSE>> : p \in MissingPaths}

Next ==
    \/ Tick
    \/ \E c \in FileCalls : ConvertFile(c[1], c[2])
    \/ \E d \in Dirs(fs), recursive \in BOOLEAN : ConvertDirectory(d, recursive)
    \/ LoopStep
    \/ LoopReturn
    \/ MainSummary
    \/ \E c \in CommandLines : MainFile(c[1], c[2])
    \/ \E c \in CommandLines : MainDir(c[1], c[3])
    \/ \E c \in CommandLines : MainMissing(c[1])

Spec == Init /\ [][Next]_vars

(***************************************************************************)
(* _html_to_markdown on its own.  An input is put together from elements;  *)
(* each element has its HTML text and the markdown it stands for: a        *)
(* heading is its hashes and its text, bold and strong are **text**,       *)
(* italic and em are *text*, a paragraph or a line break is a newline, any *)
(* other tag is dropped, a character reference is its character.           *)
(***************************************************************************)
Element(html, md) == [html |-> html, md |-> md]

Tagged(name, text) == <<"<">> \o name \o <<">">> \o text \o <<"<", "/">> \o name \o <<">">>

HeadingElement(n) ==
    Element(Tagged(<<"h", ToString(n)>>, <<"Title">>), Hashes(n) \o <<" ", "Title">>)

Elements ==
    {HeadingElement(n) : n \in 1..HeadingLevels} \cup
    { Element(Tagged(<<"p">>, <<"Hello", " ">> \o Tagged(<<"b">>, <<"world">>)),
              <<NL, "Hello", " ", "*", "*", "world", "*", "*", NL>>),
      Element(Tagged(<<"s","t","r","o","n","g">>, <<"very">>), <<"*", "*", "very", "*", "*">>),
      Element(Tagged(<<"i">>, <<"it">>), <<"*", "it", "*">>),
      Element(Tagged(<<"e","m">>, <<"em">>), <<"*", "em", "*">>),
      Element(<<"one", "<", "b", "r", ">", "two">>, <<"one", NL, "two">>),
      Element(Tagged(<<"d","i","v">>, <<"text">>), <<"text">>),
      Element(<<"&","l","t",";", "b", "&","g","t",";", "x",
                "&","l","t",";", "/", "b", "&","g","t",";">>,
              <<"<", "b", ">", "x", "<", "/", "b", ">">>),
      Element(<<"R", "&","a","m","p",";", "D">>, <<"R", "&", "D">>) }

\* the documents of at most n elements
RECURSIVE Documents(_)
Documents(n) ==
    IF n = 0 THEN {<<>>}
    ELSE LET shorter == Documents(n - 1)
         IN shorter \cup {Append(d, e) : d \in shorter, e \in Elements}

HtmlOf(doc) == Flatten([i \in DOMAIN doc |-> doc[i].html])
MarkdownOf(doc) == Flatten([i \in DOMAIN doc |-> doc[i].md])

\* the converter's state plays no part here
ConvIdle ==
    /\ libs = Packages /\ fs = <<>> /\ out = <<>> /\ pc = "idle"
    /\ batch = NoBatch /\ queue = <<>> /\ results = <<>> /\ ret = NoCall /\ exit_code = -1

InitHtml ==
    /\ ConvIdle /\ now = 0
    /\ \E doc \in Documents(MaxFrags) : html_in = HtmlOf(doc) /\ html_ref = MarkdownOf(doc)
    /\ html_out = <<>>
    /\ meta_in = <<>> /\ body_in = <<>> /\ props_in = SampleProps /\ fm_out = <<>>
    /\ stage = "html"

\* lines 450-467: the substitutions, then every remaining tag is removed
ReduceTags ==
    /\ stage = "html"
    /\ html_out' = HtmlStripped(html_in)
    /\ stage' = "stripped"
    /\ UNCHANGED <<convVars, html_in, html_ref, meta_in, body_in, props_in, fm_out>>

\* lines 470-475: unescape, collapse the blank lines, strip, return
UnescapeAndTidy ==
    /\ stage = "stripped"
    /\ html_out' = Strip(CollapseBlank(Unescape(html_out, 1), 1))
    /\ stage' = "done"
    /\ UNCHANGED <<convVars, html_in, html_ref, meta_in, body_in, props_in, fm_out>>

NextHtml == ReduceTags \/ UnescapeAndTidy

SpecHtml == InitHtml /\ [][NextHtml]_vars

(***************************************************************************)
(* _extract_docx_metadata and _add_frontmatter on their own: a mapping is  *)
(* either handed to the composer as it is, or extracted from a document's  *)
(* core properties first.                                                  *)
(***************************************************************************)
Keys == {<<"title">>, <<"tags">>, <<"pages">>}

Values ==
    { Str(<<"Ann">>), Str(<<"a", "\"", "b">>), Num(3), Bool(TRUE), None,
      List(<<Str(<<"x">>), Str(<<"y">>)>>) }

\* the mappings of at most n keys
RECURSIVE Mappings(_)
Mappings(n) ==
    IF n = 0 THEN {<<>>}
    ELSE LET shorter == Mappings(n - 1)
             fresh(m) == Keys \ {m[i][1] : i \in DOMAIN m}
         IN shorter \cup
            UNION {{Append(m, <<k, v>>) : k \in fresh(m), v \in Values} : m \in shorter}

Bodies == {<<"Hello", " ", "world">>, <<"#", " ", "T", NL, NL, "text", NL>>}

\* core properties: each one set or not, the title possibly empty
CoreProperties ==
    [title : {None, Str(<<>>), Str(<<"Report">>)}, author : {None, Str(<<"Ann">>)},
     subject : {None, Str(<<"S">>)}, created : {None, Str(<<"2020-05-01T10:00:00">>)},
     modified : {None}, last_modified_by : {None, Str(<<"Bob">>)}]

InitFront ==
    /\ ConvIdle /\ now \in 0..MaxClock
    /\ html_in = <<>> /\ html_out = <<>> /\ html_ref = <<>>
    /\ body_in \in Bodies
    /\ fm_out = <<>>
    /\ \/ stage = "metadata" /\ meta_in \in Mappings(MaxKeys) /\ props_in = SampleProps
       \/ stage = "properties" /\ meta_in = <<>> /\ props_in \in CoreProperties

\* line 141: metadata = self._extract_docx_metadata(file_path)
ExtractDocxMetadata ==
    /\ stage = "properties"
    /\ \E hasDocx, readable \in BOOLEAN :
         meta_in' = _extract_docx_metadata(hasDocx, readable, props_in, <<"a">>)
    /\ stage' = "metadata"
    /\ UNCHANGED <<convVars, html_in, html_out, html_ref, body_in, props_in, fm_out>>

\* full_content = self._add_frontmatter(markdown_content, metadata)
AddFrontmatter ==
    /\ stage = "metadata"
    /\ fm_out' = _add_frontmatter(body_in, meta_in, now)
    /\ stage' = "done"
    /\ UNCHANGED <<convVars, html_in, html_out, html_ref, meta_in, body_in, props_in>>

NextFront == ExtractDocxMetadata \/ AddFrontmatter

SpecFront == InitFront /\ [][NextFront]_vars

(***************************************************************************)
(* Reading a text back: its lines, and the frontmatter block at its head.  *)
(***************************************************************************)
\* text.split("\n")
RECURSIVE SplitLines(_, _)
SplitLines(text, line) ==
    IF text = <<>> THEN <<line>>
    ELSE IF Head(text) = NL THEN <<line>> \o SplitLines(Tail(text), <<>>)
    ELSE SplitLines(Tail(text), Append(line, Head(text)))

Delimiter == <<"---">>

IsKeyValue(line) == Len(line) >= 4 /\ line[2] = ":" /\ line[3] = " "

IsStatusConverted(line) ==
    \/ line = <<"status", ":", " ", "converted">>
    \/ line = <<"status", ":", " ", "\"", "converted", "\"">>

\* text begins with "---", key: value lines, one of them the converted
\* status, and a closing "---"
HasFrontmatter(text) ==
    LET lines == SplitLines(text, <<>>)
    IN /\ Len(lines) >= 3
       /\ lines[1] = Delimiter
       /\ \E k \in 3..Len(lines) :
            /\ lines[k] = Delimiter
            /\ \A j \in 2..(k - 1) : IsKeyValue(lines[j])
            /\ \E j \in 2..(k - 1) : IsStatusConverted(lines[j])

IsTimestampLine(line) == Len(line) >= 2 /\ line[1] = "converted_date" /\ line[2] = ":"

\* the same text, line for line, but for the timestamp fields
SameButTimestamps(a, b) ==
    LET la == SplitLines(a, <<>>)
        lb == SplitLines(b, <<>>)
    IN /\ Len(la) = Len(lb)
       /\ \A i \in DOMAIN la : la[i] = lb[i] \/ (IsTimestampLine(la[i]) /\ IsTimestampLine(lb[i]))

\* the suffixes the specification lists as supported
ListedSuffixes ==
    { Sfx(<<"d","o","c","x">>), Sfx(<<"d","o","c">>), Sfx(<<"x","l","s","x">>),
      Sfx(<<"x","l","s">>), Sfx(<<"p","d","f">>), Sfx(<<"t","x","t">>), Sfx(<<"m","d">>),
      Sfx(<<"h","t","m","l">>), Sfx(<<"r","t","f">>), Sfx(<<"c","s","v">>) }

Succeeded == ret.op = "convert_file" /\ ret.exc = "none"

BatchEnded == pc = "idle" /\ ret.op = "convert_directory"

Successes == {i \in DOMAIN results : results[i].status = "success"}
Failures == {i \in DOMAIN results : results[i].status = "failed"}

\* the last operation is a convert_file call, from a caller or from main
FileCallEnded == pc = "idle" /\ ret.op = "convert_file"

(***************************************************************************)
(* C1: after a convert_directory run there is exactly one output file per  *)
(* successfully converted input file: as many distinct output files as     *)
(* successes, each of them in the output directory.                        *)
(* Fails: in/a.txt and in/a.csv are both converted to a.md.                *)
(***************************************************************************)
C1_OneOutputPerConvertedInput ==
    BatchEnded =>
        /\ \A i \in Successes : results[i].output_file \in DOMAIN out
        /\ Cardinality({results[i].output_file : i \in Successes}) = Cardinality(Successes)

(***************************************************************************)
(* C2: a successful conversion, whatever the supported extension, leaves   *)
(* an output file that begins with a well-formed frontmatter block holding *)
(* the converted status.                                                   *)
(* Fails: _copy_markdown, _convert_html and _convert_rtf write the body    *)
(* without calling _add_frontmatter.                                       *)
(***************************************************************************)
C2_OutputBeginsWithFrontmatter ==
    Succeeded =>
        /\ Lower(suffix(ret.path)) \in ListedSuffixes
        /\ ret.result.output_file \in DOMAIN out
        /\ HasFrontmatter(out[ret.result.output_file])

(***************************************************************************)
(* C3: convert_file on an existing path raises the unsupported-format      *)
(* error (ValueError) exactly when the lower-cased suffix is not a         *)
(* registered one; it then invokes no handler and leaves the output        *)
(* directory as it was.                                                    *)
(***************************************************************************)
C3_UnsupportedExactlyWhenUnregistered ==
    [][FileCallEnded' /\ exists(fs', ret'.path) =>
          /\ (ret'.exc = "ValueError") <=> (Lower(suffix(ret'.path)) \notin ListedSuffixes)
          /\ ret'.exc = "ValueError" => (ret'.invoked = <<>> /\ out' = out)]_vars

\* an existing file with an unregistered suffix has been refused
C3_Witness ==
    /\ ret.op = "convert_file" /\ ret.exc = "ValueError"
    /\ is_file(fs, ret.path) /\ suffix(ret.path) = Sfx(<<"x", "y", "z">>)

(***************************************************************************)
(* C4: convert_file on a path that does not exist raises the not-found     *)
(* error (FileNotFoundError), whether its suffix is registered or not, and *)
(* leaves the output directory as it was.                                  *)
(***************************************************************************)
C4_MissingPathNotFound ==
    [][FileCallEnded' /\ ~exists(fs', ret'.path) =>
          /\ ret'.exc = "FileNotFoundError"
          /\ ret'.invoked = <<>>
          /\ out' = out]_vars

\* a missing path with an unregistered suffix has been reported not found,
\* with files already in the output directory
C4_Witness ==
    /\ ret.op = "convert_file" /\ ret.exc = "FileNotFoundError"
    /\ suffix(ret.path) = Sfx(<<"x", "y", "z">>)
    /\ DOMAIN out # {}

(***************************************************************************)
(* C5: in convert_directory every enumerated supported file gets exactly   *)
(* one result, in enumeration order: the inputs of the results so far      *)
(* followed by the paths still to come are the enumerated files, each      *)
(* once, and stay the same sequence from one turn of the loop to the next; *)
(* a failed result holds the status 'failed', the input path and the error *)
(* text; convert_directory does not raise.                                 *)
(***************************************************************************)
Attempted == [i \in DOMAIN results |-> results[i].input_file] \o queue

ResultsInvariant ==
    /\ pc = "loop" \/ BatchEnded =>
         /\ Range(Attempted) = Enumerated(fs, batch.dir, batch.recursive)
         /\ Len(Attempted) = Cardinality(Enumerated(fs, batch.dir, batch.recursive))
         /\ \A i \in DOMAIN results :
              \/ results[i].status = "success"
              \/ /\ results[i].status = "failed"
                 /\ DOMAIN results[i] = {"input_file", "error", "status"}
                 /\ results[i].error # <<>>
    /\ BatchEnded => ret.exc = "none" /\ queue = <<>>

C5_BatchRecordsEveryFile ==
    [][/\ ResultsInvariant'
       /\ pc = "loop" => (Attempted' = Attempted /\ Len(results') >= Len(results))]_vars

\* a batch has ended with a recorded failure followed by a success
C5_Witness ==
    /\ BatchEnded /\ Len(results) = 2
    /\ results[1].status = "failed" /\ results[2].status = "success"
    /\ results[1].input_file.name = <<"b">> \o Sfx(<<"P", "D", "F">>)
    /\ results[2].input_file.name = <<"a">> \o Sfx(<<"c", "s", "v">>)

(***************************************************************************)
(* C6: a command-line run ends with exit status 1 exactly when the input   *)
(* path is missing or the single-file conversion raised, and with 0        *)
(* otherwise; a directory run ends with 0 whatever its files did.          *)
(***************************************************************************)
C6_ExitCode ==
    pc = "idle" /\ exit_code # -1 =>
        /\ exit_code \in {0, 1}
        /\ exit_code = 1 <=>
              \/ ~exists(fs, ret.path)
              \/ (ret.op = "convert_file" /\ ret.exc # "none")
        /\ ret.op = "convert_directory" => exit_code = 0

\* a directory run in which a file failed has ended with exit status 0
C6_Witness ==
    /\ pc = "idle" /\ exit_code = 0 /\ ret.op = "convert_directory"
    /\ Failures # {}

(***************************************************************************)
(* C7: converting a file whose handler's library is not installed raises   *)
(* the missing-dependency error (ImportError), not the conversion failure, *)
(* and writes nothing.                                                     *)
(* Fails: _convert_pdf raises its ImportError inside its try block, which  *)
(* re-raises it as a plain Exception.                                      *)
(***************************************************************************)
LibraryMissing(p) ==
    LET e == Lower(suffix(p))
    IN \/ e \in {Sfx(<<"d","o","c","x">>), Sfx(<<"d","o","c">>)} /\ "docx" \notin libs
       \/ e \in {Sfx(<<"x","l","s","x">>), Sfx(<<"x","l","s">>), Sfx(<<"c","s","v">>)}
            /\ "pandas" \notin libs
       \/ e = Sfx(<<"p","d","f">>) /\ "pdfplumber" \notin libs /\ "PyPDF2" \notin libs

C7_MissingDependencySurfaced ==
    ret.op = "convert_file" /\ is_file(fs, ret.path) /\ LibraryMissing(ret.path) =>
        ret.exc = "ImportError"

(***************************************************************************)
(* C8: converting an input again, to the same output file, leaves the      *)
(* output directory with the same files, and the file's content is what    *)
(* the first run wrote but for the timestamp fields.                       *)
(***************************************************************************)
C8_RerunOverwrites ==
    [][/\ Succeeded /\ FileCallEnded'
       /\ ret'.path = ret.path
       /\ OutputFile(ret'.path, ret'.name) = ret.result.output_file
       => /\ ret'.exc = "none"
          /\ ret'.result.output_file = ret.result.output_file
          /\ DOMAIN out' = DOMAIN out
          /\ SameButTimestamps(out'[ret.result.output_file], out[ret.result.output_file])]_vars

\* the only input has been converted again, onto the one output file, which
\* an earlier conversion of it wrote; the file carries a timestamp field
C8_Witness ==
    /\ Succeeded /\ ret.replaced
    /\ DOMAIN fs = {ret.path} /\ DOMAIN out = {ret.result.output_file}
    /\ HasFrontmatter(out[ret.result.output_file])

(***************************************************************************)
(* C9.  The HTML reduction maps h1-h6 to the matching number of "#"        *)
(* markers, bold and strong to **...**, italic and em to *...*, paragraph  *)
(* and line-break tags to newlines, and the body it returns holds no HTML  *)
(* tag, whatever the input, text with entity-escaped angle brackets        *)
(* included; <h1>Title</h1><p>Hello <b>world</b></p> gives a body that     *)
(* contains "# Title" and "Hello **world**".                               *)
(***************************************************************************)
Contains(s, sub) == \E i \in 1..(Len(s) + 1) : StartsWith(s, i, sub)

C9_HtmlReduction ==
    stage = "done" =>
        /\ html_out = Strip(CollapseBlank(html_ref, 1))
        /\ ~HasTag(html_out)
        /\ html_in = HtmlSample =>
             /\ Contains(html_out, <<"#", " ", "Title">>)
             /\ Contains(html_out, <<"Hello", " ", "*", "*", "world", "*", "*">>)

(***************************************************************************)
(* C10.  For any metadata mapping the frontmatter composer emits an        *)
(* opening "---" line, one "key: value" line per key whose value is not    *)
(* null, in insertion order, strings and lists JSON-encoded, then the      *)
(* converted_date, status and needs_review lines, a closing "---" line,    *)
(* and the markdown body unchanged; a key whose value is null has no line. *)
(***************************************************************************)
NotNull(kv) == kv[2] # None

Encoded(v) == IF v.t \in {"str", "list"} THEN JsonDumps(v) ELSE PyStr(v)

ResultFields ==
    {"status", "content_type", "input_file", "output_file", "conversion_time", "file_size"}

\* the content_type each listed suffix is converted under
ContentTypeOf(sfx) ==
    CASE sfx \in {Sfx(<<"d","o","c","x">>), Sfx(<<"d","o","c">>)} -> "document"
      [] sfx \in {Sfx(<<"x","l","s","x">>), Sfx(<<"x","l","s">>)} -> "spreadsheet"
      [] sfx = Sfx(<<"p","d","f">>) -> "pdf"
      [] sfx = Sfx(<<"t","x","t">>) -> "text"
      [] sfx = Sfx(<<"m","d">>) -> "markdown"
      [] sfx = Sfx(<<"h","t","m","l">>) -> "html"
      [] sfx = Sfx(<<"r","t","f">>) -> "rtf"
      [] sfx = Sfx(<<"c","s","v">>) -> "csv"
      [] OTHER -> "none"

NameGiven(name) == name # None /\ name.s # <<>>

ExpectedOutput(p, name) == IF NameGiven(name) THEN name.s \o DotMd ELSE stem(p) \o DotMd

CompleteResult(r, p, name) ==
    /\ ResultFields \subseteq DOMAIN r
    /\ r.status = "success"
    /\ r.content_type = ContentTypeOf(Lower(suffix(p)))
    /\ r.input_file = p
    /\ r.output_file = ExpectedOutput(p, name)
    /\ r.file_size = Len(fs[p].data)

C11_SuccessfulResultComplete ==
    [][/\ Succeeded' =>
            /\ CompleteResult(ret'.result, ret'.path, ret'.name)
            /\ Len(ret'.invoked) = 1
            /\ ret'.result.output_file \in DOMAIN out'
            /\ \A n \in DOMAIN out' \ {ret'.result.output_file} :
                   n \in DOMAIN out /\ out'[n] = out[n]
       /\ \A i \in DOMAIN results' :
            results'[i].status = "success" =>
                /\ CompleteResult(results'[i], results'[i].input_file, None)
                /\ results'[i].output_file \in DOMAIN out']_vars

\* a call given a name has succeeded and written <name>.md, not <stem>.md
C11_Witness ==
    /\ Succeeded /\ ret.name = Str(<<"n">>)
    /\ ret.result.output_file = <<"n">> \o DotMd
    /\ DOMAIN out = {<<"n">> \o DotMd}
    /\ ret.result.content_type = "csv"

(***************************************************************************)
(* C12.  A batch handles its files strictly one after another: each turn   *)
(* of the loop takes the next file alone and ends with that file's output  *)
(* written or its failure recorded, before any later file is begun; a      *)
(* file's failure leaves the output directory as it was, so the outputs    *)
(* written for earlier files stay, and when a batch with failures ends the *)
(* output of every file that succeeded is present (no rollback).           *)
(***************************************************************************)
\* every file the loop has taken has its result, a success's output is
\* written, and no file still in the queue has been begun
TakenFilesComplete ==
    /\ \A i \in DOMAIN results :
         results[i].status = "success" => results[i].output_file \in DOMAIN out
    /\ \A k \in DOMAIN queue : \A i \in DOMAIN results : results[i].input_file # queue[k]

C12_SequentialNoRollback ==
    [][/\ pc' = "loop" \/ BatchEnded' => TakenFilesComplete'
       /\ pc = "loop" /\ results' # results =>
            /\ queue # <<>> /\ queue' = Tail(queue)
            /\ results' = Append(results, results'[Len(results')])
            /\ results'[Len(results')].input_file = Head(queue)
            /\ results'[Len(results')].status \in {"success", "failed"}
            /\ results'[Len(results')].status = "failed" => out' = out
            /\ \A n \in DOMAIN out : n \in DOMAIN out']_vars

\* a batch has ended whose first file succeeded and whose second failed, the
\* first one's output still there
C12_Witness ==
    /\ BatchEnded /\ Len(results) = 2
    /\ results[1].status = "success" /\ results[2].status = "failed"
    /\ results[1].output_file \in DOMAIN out
    /\ HasFrontmatter(out[results[1].output_file])

====
